---- MODULE Spec2Model ----
(***************************************************************************)
(* Model of custom_components/hildebrandglow/sensor.py: the sensor         *)
(* platform's async_setup_entry (with its nested handle_failed_auth) and   *)
(* the GlowConsumptionCurrent entity.                                      *)
(*                                                                         *)
(* A run of async_setup_entry is a coroutine: it is suspended only at its  *)
(* awaits (retrieve_resources, authenticate), so every action below is the *)
(* code between two awaits.  The outcome of a network call is chosen by    *)
(* the remote API, hence nondeterministic.  async_update writes the entity *)
(* only after its single await returned, so one action per outcome is      *)
(* exact.                                                                  *)
(***************************************************************************)
EXTENDS Integers, Sequences, FiniteSets, TLC

\* ---------------------------------------------------------------- bounds
MaxAccounts == 2
MaxRuns == 2
ResPerAccount == 3
MaxPolls == 3
MaxReading == 2

Accounts == 1..MaxAccounts
Runs == 1..MaxRuns

\* ------------------------------------------------------- values and data
\* Python's None for an Optional value; Some(x) is a value that is present.
None == <<>>
Some(x) == <<x>>
NoAccount == 0
NoGlow == [token |-> [user |-> NoAccount, serial |-> 0]]

\* A bearer token: the server issues it for the user that authenticated;
\* serial 0 is the token stored when the entry was created.
Token(u, n) == [user |-> u, serial |-> n]

\* Glow(APP_ID, token): a client object carrying its token.
Glow(tok) == [token |-> tok]

\* The classifier strings the API attaches to the k-th resource of an account.
Classifier(k) ==
    CASE k = 1 -> "electricity.consumption"
      [] k = 2 -> "electricity.consumption.cost"
      [] k = 3 -> "gas.consumption"
      [] OTHER -> "gas.consumption.cost"

\* A resource descriptor as returned by retrieve_resources.
Resource(a, k) == [resourceId |-> <<a, k>>, classifier |-> Classifier(k)]

AllResources(a) == [k \in 1..ResPerAccount |-> Resource(a, k)]

\* The listings the API may return for an account: the account owns the
\* first n of its resources, and n may differ from one call to the next
\* (resource ids are distinct within and across accounts).
Listings(a) ==
    { SubSeq(AllResources(a), 1, n) : n \in 0..ResPerAccount }

\* A reading as returned by current_usage.
Reading(v) == [data |-> << <<0, v>> >>, units |-> "kWh"]
Readings == { Reading(v) : v \in 1..MaxReading }

\* A variant of knownClassifiers that also accepts the cost classifier.
knownClassifiersWithCost ==
    {"gas.consumption", "electricity.consumption", "electricity.consumption.cost"}

\* GlowConsumptionCurrent.knownClassifiers
knownClassifiers == {"gas.consumption", "electricity.consumption"}

\* config_object(current_config, glow_auth): the entry data with the token
\* replaced by the one just obtained.
config_object(current_config, glow_auth) ==
    [current_config EXCEPT !.token = glow_auth.token]

Range(s) == { s[i] : i \in 1..Len(s) }

\* ------------------------------------------------------------- variables
VARIABLES
    hassData,      \* hass.data[DOMAIN]: entry_id -> Glow client
    configData,    \* the persisted data of every config entry
    nextSerial,    \* remote API: serial of the next token it issues
    authCalls,     \* number of Glow.authenticate calls issued so far
    pc,            \* per run: where the coroutine is suspended
    config,        \* per run: the config argument (an entry id)
    todo,          \* per run: keys of hass.data[DOMAIN] still to iterate
    entry,         \* per run: the loop variable
    glow,          \* per run: the local variable glow
    new_entities,  \* per run: the local list new_entities (sensor ids)
    result,        \* per run: how the run ended
    log,           \* per run: the calls made and their outcomes, in order
    added,         \* per run: every sensor passed to async_add_entities
    sensors,       \* the GlowConsumptionCurrent objects constructed
    polls          \* number of async_update calls so far

runVars == <<pc, config, todo, entry, glow, new_entities, result, log, added>>
hostVars == <<hassData, configData, nextSerial, authCalls>>
vars == <<hassData, configData, nextSerial, authCalls, pc, config, todo,
          entry, glow, new_entities, result, log, added, sensors, polls>>

\* One entry of a run's log.
Event(op, acct, g, res) == [op |-> op, acct |-> acct, glow |-> g, res |-> res]

\* Keys of hass.data[DOMAIN] in iteration (insertion) order.
Entries == [a \in Accounts |-> a]

Init ==
    /\ hassData = [a \in Accounts |-> Glow(Token(a, 0))]
    /\ configData = [a \in Accounts |-> [username |-> a, token |-> Token(a, 0)]]
    /\ nextSerial = 1
    /\ authCalls = 0
    /\ pc = [r \in Runs |-> "idle"]
    /\ config = [r \in Runs |-> NoAccount]
    /\ todo = [r \in Runs |-> <<>>]
    /\ entry = [r \in Runs |-> NoAccount]
    /\ glow = [r \in Runs |-> NoGlow]
    /\ new_entities = [r \in Runs |-> <<>>]
    /\ result = [r \in Runs |-> "running"]
    /\ log = [r \in Runs |-> <<>>]
    /\ added = [r \in Runs |-> <<>>]
    /\ sensors = <<>>
    /\ polls = 0

\* ------------------------------------------------- GlowConsumptionCurrent
\* The identity of a sensor object: the run that constructed it and the
\* resource it was constructed for.
SensorId(r, resource) == <<r, resource.resourceId>>

\* GlowConsumptionCurrent.__init__ (with the class attribute available = True).
\* polled / lastOut / fetched / raised record the history of async_update
\* on this object: number of polls, outcome of the last one, the reading
\* returned by the last successful fetch, whether the last call raised.
GlowConsumptionCurrent(g, resource) ==
    [ glow |-> g, resource |-> resource, _state |-> None, available |-> TRUE,
      polled |-> 0, lastOut |-> "never", fetched |-> None, raised |-> FALSE ]

\* A variant of unique_id that returns an id shared by all resources of the
\* account (that of its first resource) instead of the resource's own.
unique_id_shared(s) == <<sensors[s].resource["resourceId"][1], 1>>

\* GlowConsumptionCurrent.unique_id
unique_id(s) == sensors[s].resource["resourceId"]

\* Python's truth value of an Optional[dict]: None and the empty dict are
\* false.
Truthy(x) == x # None /\ DOMAIN x[1] # {}

\* GlowConsumptionCurrent.state
state(s) ==
    IF Truthy(sensors[s]._state)
        THEN Some(sensors[s]._state[1].data[1][2])
        ELSE None

\* The sensors the host knows: those passed to async_add_entities.
Handed == UNION { Range(added[r]) : r \in Runs }

\* --------------------------------------------------- async_setup_entry
\* Lines 54-57: the resources of a listing that get a sensor, in order.
Recognized(resources) ==
    SelectSeq(resources, LAMBDA x : x["classifier"] \in knownClassifiers)

\* The entry whose credentials handle_failed_auth uses and whose data and
\* client it replaces: line 48 passes the platform's config argument.
AuthTarget(r) == config[r]

\* Lines 54-61: build the sensors of a listing, hand the whole list to the
\* host and go on to the next entry, or return True after the last one.
\* returned is the log entry of the call that produced the listing.
Continue(r, returned, resources) ==
    LET rec == Recognized(resources)
        ids == [i \in 1..Len(rec) |-> SensorId(r, rec[i])]
        ne  == new_entities[r] \o ids
    IN  /\ sensors' = [i \in Range(ids) |->
                         GlowConsumptionCurrent(glow[r],
                             CHOOSE x \in Range(rec) : SensorId(r, x) = i)]
                      @@ sensors
        /\ new_entities' = [new_entities EXCEPT ![r] = ne]
        /\ added' = [added EXCEPT ![r] = @ \o ne]
        /\ IF todo[r] = <<>>
             THEN /\ pc' = [pc EXCEPT ![r] = "done"]
                  /\ result' = [result EXCEPT ![r] = "True"]
                  /\ log' = [log EXCEPT ![r] = @ \o
                        << returned,
                           Event("add_entities", entry[r], glow[r], ne),
                           Event("return True", NoAccount, NoGlow, <<>>) >>]
                  /\ UNCHANGED <<todo, entry, glow>>
             ELSE /\ pc' = [pc EXCEPT ![r] = "listing"]
                  /\ entry' = [entry EXCEPT ![r] = Head(todo[r])]
                  /\ todo' = [todo EXCEPT ![r] = Tail(@)]
                  /\ glow' = [glow EXCEPT ![r] = hassData[Head(todo[r])]]
                  /\ log' = [log EXCEPT ![r] = @ \o
                        << returned,
                           Event("add_entities", entry[r], glow[r], ne),
                           Event("retrieve_resources", Head(todo[r]),
                                 hassData[Head(todo[r])], <<>>) >>]
                  /\ UNCHANGED result
        /\ UNCHANGED <<config, hostVars, polls>>

\* Lines 25, 39-45: the run starts, enters the loop and awaits the first
\* listing.
Setup(r, c) ==
    /\ pc[r] = "idle"
    /\ config' = [config EXCEPT ![r] = c]
    /\ new_entities' = [new_entities EXCEPT ![r] = <<>>]
    /\ entry' = [entry EXCEPT ![r] = Head(Entries)]
    /\ todo' = [todo EXCEPT ![r] = Tail(Entries)]
    /\ glow' = [glow EXCEPT ![r] = hassData[Head(Entries)]]
    /\ pc' = [pc EXCEPT ![r] = "listing"]
    /\ log' = [log EXCEPT ![r] =
            << Event("retrieve_resources", Head(Entries),
                     hassData[Head(Entries)], <<>>) >>]
    /\ UNCHANGED <<result, added, sensors, hostVars, polls>>

\* Line 45 returns a listing.
ListingOk(r, resources) ==
    /\ pc[r] = "listing"
    /\ resources \in Listings(entry[r])
    /\ Continue(r, Event("resources", entry[r], glow[r], resources), resources)

\* A variant of ListingInvalidAuth that takes a per-entry lock: the run
\* does not enter handle_failed_auth while another run is inside it for the
\* same config entry.
ListingInvalidAuthGuarded(r) ==
    /\ pc[r] = "listing"
    /\ \A q \in Runs \ {r} : ~ (pc[q] = "auth" /\ AuthTarget(q) = AuthTarget(r))
    /\ pc' = [pc EXCEPT ![r] = "auth"]
    /\ authCalls' = authCalls + 1
    /\ log' = [log EXCEPT ![r] = @ \o
            << Event("InvalidAuth", entry[r], glow[r], <<>>),
               Event("authenticate", configData[AuthTarget(r)].username,
                     NoGlow, <<>>) >>]
    /\ UNCHANGED <<hassData, configData, nextSerial, config, todo, entry,
                   glow, new_entities, result, added, sensors, polls>>

\* Lines 46-48, 28-30: the listing raised InvalidAuth; handle_failed_auth
\* is entered and awaits Glow.authenticate with the stored credentials.
ListingInvalidAuth(r) ==
    /\ pc[r] = "listing"
    /\ pc' = [pc EXCEPT ![r] = "auth"]
    /\ authCalls' = authCalls + 1
    /\ log' = [log EXCEPT ![r] = @ \o
            << Event("InvalidAuth", entry[r], glow[r], <<>>),
               Event("authenticate", configData[AuthTarget(r)].username,
                     NoGlow, <<>>) >>]
    /\ UNCHANGED <<hassData, configData, nextSerial, config, todo, entry,
                   glow, new_entities, result, added, sensors, polls>>

\* A variant of ListingError in which line 46 is a bare except: any error
\* of the listing is handled like an authentication error.
ListingErrorHandled(r) ==
    /\ pc[r] = "listing"
    /\ pc' = [pc EXCEPT ![r] = "auth"]
    /\ authCalls' = authCalls + 1
    /\ log' = [log EXCEPT ![r] = @ \o
            << Event("Error", entry[r], glow[r], <<>>),
               Event("authenticate", configData[AuthTarget(r)].username,
                     NoGlow, <<>>) >>]
    /\ UNCHANGED <<hassData, configData, nextSerial, config, todo, entry,
                   glow, new_entities, result, added, sensors, polls>>

\* Line 45 raised something other than InvalidAuth: it propagates.
ListingError(r) ==
    /\ pc[r] = "listing"
    /\ pc' = [pc EXCEPT ![r] = "done"]
    /\ result' = [result EXCEPT ![r] = "Error"]
    /\ log' = [log EXCEPT ![r] = @ \o
            << Event("Error", entry[r], glow[r], <<>>),
               Event("raise Error", NoAccount, NoGlow, <<>>) >>]
    /\ UNCHANGED <<hostVars, config, todo, entry, glow, new_entities, added,
                   sensors, polls>>

\* The username the pending authenticate call of run r was issued with.
PendingUser(r) == log[r][Len(log[r])].acct

\* A variant of AuthenticateOk in which the run is suspended between
\* async_update_entry (line 34) and the store of the new client (line 37).
AuthenticateOkAwaitsBetween(r) ==
    \/ LET glow_auth == [token |-> Token(PendingUser(r), nextSerial)]
           target == AuthTarget(r)
           new_config == config_object(configData[target], glow_auth)
       IN  /\ pc[r] = "auth"
           /\ nextSerial' = nextSerial + 1
           /\ configData' = [configData EXCEPT ![target] = new_config]
           /\ pc' = [pc EXCEPT ![r] = "persisted"]
           /\ log' = [log EXCEPT ![r] = @ \o
                 << Event("token", PendingUser(r), Glow(glow_auth["token"]), <<>>),
                    Event("update_entry", target, Glow(new_config.token), <<>>) >>]
           /\ UNCHANGED <<hassData, glow, authCalls, config, todo, entry,
                          new_entities, result, added, sensors, polls>>
    \/ LET target == AuthTarget(r)
           new == log[r][Len(log[r]) - 1].glow
           store == [hassData EXCEPT ![target] = new]
       IN  /\ pc[r] = "persisted"
           /\ hassData' = store
           /\ glow' = [glow EXCEPT ![r] = store[entry[r]]]
           /\ pc' = [pc EXCEPT ![r] = "retry"]
           /\ log' = [log EXCEPT ![r] = @ \o
                 << Event("store", target, new, <<>>),
                    Event("retrieve_resources", entry[r], store[entry[r]], <<>>) >>]
           /\ UNCHANGED <<configData, nextSerial, authCalls, config, todo, entry,
                          new_entities, result, added, sensors, polls>>

\* Lines 28-37, 52-53: authenticate returned glow_auth; the entry data is
\* rewritten, a new client is stored, then line 52 reloads glow for the
\* loop's entry and line 53 awaits the retried listing.
AuthenticateOk(r) ==
    LET glow_auth == [token |-> Token(PendingUser(r), nextSerial)]
        target == AuthTarget(r)
        current_config == configData[target]
        new_config == config_object(current_config, glow_auth)
        store == [hassData EXCEPT ![target] = Glow(glow_auth["token"])]
    IN  /\ pc[r] = "auth"
        /\ nextSerial' = nextSerial + 1
        /\ configData' = [configData EXCEPT ![target] = new_config]
        /\ hassData' = store
        /\ glow' = [glow EXCEPT ![r] = store[entry[r]]]
        /\ pc' = [pc EXCEPT ![r] = "retry"]
        /\ log' = [log EXCEPT ![r] = @ \o
                << Event("token", PendingUser(r), Glow(glow_auth["token"]), <<>>),
                   Event("update_entry", target, Glow(new_config.token), <<>>),
                   Event("store", target, Glow(glow_auth["token"]), <<>>),
                   Event("retrieve_resources", entry[r], store[entry[r]], <<>>) >>]
        /\ UNCHANGED <<authCalls, config, todo, entry, new_entities, result,
                       added, sensors, polls>>

\* Lines 49-50: authenticate raised InvalidAuth; the run returns False.
AuthenticateInvalidAuth(r) ==
    /\ pc[r] = "auth"
    /\ pc' = [pc EXCEPT ![r] = "done"]
    /\ result' = [result EXCEPT ![r] = "False"]
    /\ log' = [log EXCEPT ![r] = @ \o
            << Event("InvalidAuth", PendingUser(r), NoGlow, <<>>),
               Event("return False", NoAccount, NoGlow, <<>>) >>]
    /\ UNCHANGED <<hostVars, config, todo, entry, glow, new_entities, added,
                   sensors, polls>>

\* Line 48 raised something other than InvalidAuth: it propagates.
AuthenticateError(r) ==
    /\ pc[r] = "auth"
    /\ pc' = [pc EXCEPT ![r] = "done"]
    /\ result' = [result EXCEPT ![r] = "Error"]
    /\ log' = [log EXCEPT ![r] = @ \o
            << Event("Error", PendingUser(r), NoGlow, <<>>),
               Event("raise Error", NoAccount, NoGlow, <<>>) >>]
    /\ UNCHANGED <<hostVars, config, todo, entry, glow, new_entities, added,
                   sensors, polls>>

\* Line 53 returns a listing.
RetryOk(r, resources) ==
    /\ pc[r] = "retry"
    /\ resources \in Listings(entry[r])
    /\ Continue(r, Event("resources", entry[r], glow[r], resources), resources)

\* A variant of RetryInvalidAuth in which the retry is inside a try that
\* swallows InvalidAuth, so the run goes on with no resources.
RetryInvalidAuthSwallowed(r) ==
    /\ pc[r] = "retry"
    /\ Continue(r, Event("InvalidAuth", entry[r], glow[r], <<>>), <<>>)

\* A variant of RetryInvalidAuth in which the failure handling is a loop:
\* a retry that fails with InvalidAuth re-authenticates again.
RetryInvalidAuthAgain(r) ==
    /\ pc[r] = "retry"
    /\ pc' = [pc EXCEPT ![r] = "auth"]
    /\ authCalls' = authCalls + 1
    /\ log' = [log EXCEPT ![r] = @ \o
            << Event("InvalidAuth", entry[r], glow[r], <<>>),
               Event("authenticate", configData[AuthTarget(r)].username,
                     NoGlow, <<>>) >>]
    /\ UNCHANGED <<hassData, configData, nextSerial, config, todo, entry,
                   glow, new_entities, result, added, sensors, polls>>

\* Line 53 raised InvalidAuth: it is outside every try, so it propagates.
RetryInvalidAuth(r) ==
    /\ pc[r] = "retry"
    /\ pc' = [pc EXCEPT ![r] = "done"]
    /\ result' = [result EXCEPT ![r] = "InvalidAuth"]
    /\ log' = [log EXCEPT ![r] = @ \o
            << Event("InvalidAuth", entry[r], glow[r], <<>>),
               Event("raise InvalidAuth", NoAccount, NoGlow, <<>>) >>]
    /\ UNCHANGED <<hostVars, config, todo, entry, glow, new_entities, added,
                   sensors, polls>>

\* Line 53 raised something other than InvalidAuth: it propagates.
RetryError(r) ==
    /\ pc[r] = "retry"
    /\ pc' = [pc EXCEPT ![r] = "done"]
    /\ result' = [result EXCEPT ![r] = "Error"]
    /\ log' = [log EXCEPT ![r] = @ \o
            << Event("Error", entry[r], glow[r], <<>>),
               Event("raise Error", NoAccount, NoGlow, <<>>) >>]
    /\ UNCHANGED <<hostVars, config, todo, entry, glow, new_entities, added,
                   sensors, polls>>

\* ------------------------------------------------------- async_update
\* A variant of AfterFetch that stores a reading only when none is stored.
AfterFetchKeepsFirst(old, reading) ==
    [old EXCEPT !._state = IF @ = None THEN Some(reading) ELSE @,
                !.polled = @ + 1, !.lastOut = "ok",
                !.fetched = Some(reading), !.raised = FALSE]

\* Lines 150-153: current_usage returned a reading; self._state is replaced.
AfterFetch(old, reading) ==
    [old EXCEPT !._state = Some(reading),
                !.polled = @ + 1, !.lastOut = "ok",
                !.fetched = Some(reading), !.raised = FALSE]

\* A variant of AfterInvalidAuth that also drops the stored reading.
AfterInvalidAuthClearsState(all, s) ==
    [all EXCEPT ![s].available = FALSE, ![s]._state = None,
                ![s].polled = @ + 1, ![s].lastOut = "InvalidAuth",
                ![s].raised = FALSE]

\* A variant of AfterInvalidAuth that assigns the class attribute
\* GlowConsumptionCurrent.available, which every sensor object reads.
AfterInvalidAuthOnClass(all, s) ==
    [t \in DOMAIN all |->
        IF t = s
          THEN [all[t] EXCEPT !.available = FALSE, !.polled = @ + 1,
                              !.lastOut = "InvalidAuth", !.raised = FALSE]
          ELSE [all[t] EXCEPT !.available = FALSE]]

\* Lines 154-157: current_usage raised InvalidAuth; the instance attribute
\* available of this object is set, nothing else.
AfterInvalidAuth(all, s) ==
    [all EXCEPT ![s].available = FALSE,
                ![s].polled = @ + 1, ![s].lastOut = "InvalidAuth",
                ![s].raised = FALSE]

UpdateOk(s, reading) ==
    /\ s \in Handed
    /\ polls < MaxPolls
    /\ polls' = polls + 1
    /\ sensors' = [sensors EXCEPT ![s] = AfterFetch(@, reading)]
    /\ UNCHANGED <<hostVars, runVars>>

UpdateInvalidAuth(s) ==
    /\ s \in Handed
    /\ polls < MaxPolls
    /\ polls' = polls + 1
    /\ sensors' = AfterInvalidAuth(sensors, s)
    /\ UNCHANGED <<hostVars, runVars>>

\* current_usage raised something other than InvalidAuth: it propagates to
\* the host and the entity is not written.
UpdateError(s) ==
    /\ s \in Handed
    /\ polls < MaxPolls
    /\ polls' = polls + 1
    /\ sensors' = [sensors EXCEPT ![s].polled = @ + 1, ![s].lastOut = "Error",
                                  ![s].raised = TRUE]
    /\ UNCHANGED <<hostVars, runVars>>

\* ------------------------------------------------------- specification
\* The steps of the setup runs R.
SetupNext(R) ==
    \/ \E r \in R, c \in Accounts : Setup(r, c)
    \/ \E r \in R : \E resources \in Listings(entry[r]) : ListingOk(r, resources)
    \/ \E r \in R : ListingInvalidAuth(r)
    \/ \E r \in R : ListingError(r)
    \/ \E r \in R : AuthenticateOk(r)
    \/ \E r \in R : AuthenticateInvalidAuth(r)
    \/ \E r \in R : AuthenticateError(r)
    \/ \E r \in R : \E resources \in Listings(entry[r]) : RetryOk(r, resources)
    \/ \E r \in R : RetryInvalidAuth(r)
    \/ \E r \in R : RetryError(r)

\* The polls of the sensors the host knows.
PollNext ==
    \/ \E s \in Handed : \E reading \in Readings : UpdateOk(s, reading)
    \/ \E s \in Handed : UpdateInvalidAuth(s)
    \/ \E s \in Handed : UpdateError(s)

Next == SetupNext(Runs) \/ PollNext

\* The whole program: overlapping setup runs and polls.
Spec == Init /\ [][Next]_vars

\* The two parts of Spec that are model-checked.  Every behaviour of either
\* is a behaviour of Spec.  Polls neither read nor write what the setup
\* actions read (hostVars, runVars), and the setup actions neither read nor
\* write the poll fields of a sensor, so SetupSpec is exact for the setup
\* variables and PollSpec for the sensors of one run.
SetupSpec == Init /\ [][SetupNext(Runs)]_vars

PollSpec == Init /\ [][SetupNext({1}) \/ PollNext]_vars

\* Run r is between the two writes of handle_failed_auth (lines 34 and 37).
\* No await separates them, so no run is ever suspended there.
BetweenWrites(r) == pc[r] = "persisted"

\* ------------------------------------------------ reading a run's log
\* Entry i of run r's log exists and is an op.
Has(r, i, op) == i \in 1..Len(log[r]) /\ log[r][i].op = op

\* Entry i of run r's log is the authentication error of a first listing
\* that was followed by a successful re-authentication; the retried
\* listing is then issued at i + 5 and its outcome is entry i + 6.
Reauthenticated(r, i) ==
    /\ Has(r, i, "InvalidAuth")
    /\ Has(r, i - 1, "retrieve_resources")
    /\ Has(r, i + 1, "authenticate")
    /\ Has(r, i + 2, "token")
    /\ Has(r, i + 5, "retrieve_resources")

\* The two consumption classifiers of the specification.
IsConsumption(x) ==
    x.classifier \in {"gas.consumption", "electricity.consumption"}

\* The account a sensor's resource belongs to.
AccountOf(s) == sensors[s].resource.resourceId[1]

\* ------------------------------------------------------------- claims
\* C1 (as stated): when a run is over and an account's first listing failed
\* with an authentication error and its retried listing succeeded, the run
\* returned True, the run's sensors of that account are those of the
\* retried listing, and the account's persisted token is the token the
\* re-authentication returned.
C1_Original ==
    \A r \in Runs : \A i \in 1..Len(log[r]) :
        (pc[r] = "done" /\ Reauthenticated(r, i) /\ Has(r, i + 6, "resources"))
        => /\ result[r] = "True"
           /\ { s \in Range(new_entities[r]) : AccountOf(s) = log[r][i].acct }
                = { SensorId(r, x) :
                      x \in { y \in Range(log[r][i + 6].res) : IsConsumption(y) } }
           /\ configData[log[r][i].acct].token = log[r][i + 2].glow.token

\* C2: when an account's first listing and its retried listing both failed
\* with an authentication error, the run is over, it did not succeed, and
\* it handed no sensor of that account to async_add_entities.
C2_DoubleFailureFails ==
    \A r \in Runs : \A i \in 1..Len(log[r]) :
        (Reauthenticated(r, i) /\ Has(r, i + 6, "InvalidAuth"))
        => /\ pc[r] = "done"
           /\ result[r] \in {"False", "InvalidAuth"}
           /\ \A s \in Range(added[r]) : AccountOf(s) # log[r][i].acct

\* C2 witness: the second account failed twice after the first account's
\* sensors had been handed over.
C2_Witness ==
    \E r \in Runs : \E i \in 1..Len(log[r]) :
        /\ Reauthenticated(r, i) /\ Has(r, i + 6, "InvalidAuth")
        /\ log[r][i].acct = 2
        /\ added[r] # <<>>

\* C3 (as stated): a run that ended in authentication failure handed no
\* sensor of any account to async_add_entities.
C3_Original ==
    \A r \in Runs :
        (pc[r] = "done" /\ result[r] \in {"False", "InvalidAuth"})
        => added[r] = <<>>

\* C4 (as stated): after an async_update whose fetch succeeded the stored
\* reading is the one fetched and the sensor is available.
C4_Original ==
    \A s \in DOMAIN sensors :
        sensors[s].lastOut = "ok"
        => /\ sensors[s]._state = sensors[s].fetched
           /\ sensors[s].available

\* C5: after an async_update whose fetch failed with an authentication
\* error the sensor is unavailable and its stored reading is the one of the
\* last successful poll, or None when no poll succeeded; state follows it.
C5_AuthFailureKeepsReading ==
    \A s \in DOMAIN sensors :
        sensors[s].lastOut = "InvalidAuth"
        => /\ ~ sensors[s].available
           /\ sensors[s]._state = sensors[s].fetched
           /\ state(s) = IF sensors[s].fetched = None THEN None
                         ELSE Some(sensors[s].fetched[1].data[1][2])

\* C5 witness: a poll failed after an earlier poll had stored a reading,
\* and another sensor failed without ever having a reading.
C5_Witness ==
    \E s, t \in DOMAIN sensors :
        /\ sensors[s].lastOut = "InvalidAuth" /\ sensors[s].fetched # None
        /\ sensors[s].polled >= 2
        /\ sensors[t].lastOut = "InvalidAuth" /\ sensors[t].fetched = None

\* C6: a step in which a sensor's poll fails with an authentication error
\* does not raise, issues no authenticate call, leaves the persisted
\* configuration, the client store and every run unchanged, and leaves the
\* availability and reading of every other sensor unchanged.
C6_AuthFailureIsLocal ==
    [][ \A s \in DOMAIN sensors :
          (sensors'[s].polled = sensors[s].polled + 1
             /\ sensors'[s].lastOut = "InvalidAuth")
          => /\ ~ sensors'[s].raised
             /\ authCalls' = authCalls
             /\ log' = log
             /\ configData' = configData
             /\ hassData' = hassData
             /\ \A t \in DOMAIN sensors \ {s} :
                    /\ sensors'[t].available = sensors[t].available
                    /\ sensors'[t]._state = sensors[t]._state ]_vars

\* C6 witness: one sensor is unavailable after an authentication error
\* while a sensor of the same account and a sensor of another account are
\* available, one of them with a reading.
C6_Witness ==
    \E s, t, u \in DOMAIN sensors :
        /\ sensors[s].lastOut = "InvalidAuth" /\ ~ sensors[s].available
        /\ t # s /\ AccountOf(t) = AccountOf(s) /\ sensors[t].available
        /\ AccountOf(u) # AccountOf(s) /\ sensors[u].available
        /\ sensors[u]._state # None

\* C7 (as stated): when a run re-authenticates because the listing of
\* account X failed, the credentials used, the configuration rewritten and
\* the client replaced are those of X.
C7_Original ==
    \A r \in Runs : \A i \in 1..Len(log[r]) :
        Reauthenticated(r, i)
        => /\ log[r][i + 1].acct = log[r][i].acct
           /\ log[r][i + 3].acct = log[r][i].acct
           /\ log[r][i + 4].acct = log[r][i].acct

\* C8: a listed resource whose classifier is not one of the two consumption
\* classifiers gets no sensor, constructed or handed over; the listing is
\* followed by the hand-over, not by an error, and the consumption
\* resources of the same listing are handed over.
C8_UnknownClassifierSkipped ==
    /\ \A s \in DOMAIN sensors : IsConsumption(sensors[s].resource)
    /\ \A r \in Runs : \A i \in 1..Len(log[r]) :
         Has(r, i, "resources")
         => /\ Has(r, i + 1, "add_entities")
            /\ \A x \in Range(log[r][i].res) :
                 IF IsConsumption(x)
                   THEN SensorId(r, x) \in Range(added[r])
                   ELSE /\ SensorId(r, x) \notin DOMAIN sensors
                        /\ SensorId(r, x) \notin Range(added[r])

\* C8 witness: a listing with an unrecognized resource between two
\* consumption resources, in a run that returned True.
C8_Witness ==
    \E r \in Runs : \E i \in 1..Len(log[r]) :
        /\ Has(r, i, "resources")
        /\ Len(log[r][i].res) = 3
        /\ ~ IsConsumption(log[r][i].res[2])
        /\ IsConsumption(log[r][i].res[3])
        /\ result[r] = "True"

\* C9: in a run that returned True, every consumption resource of every
\* listing the run used has exactly one sensor in new_entities, and that
\* sensor's unique_id is the resource's resourceId.
C9_OneSensorPerResource ==
    \A r \in Runs : \A i \in 1..Len(log[r]) :
        (result[r] = "True" /\ Has(r, i, "resources"))
        => \A x \in Range(log[r][i].res) :
             IsConsumption(x)
             => /\ Cardinality({ j \in 1..Len(new_entities[r]) :
                       sensors[new_entities[r][j]].resource = x }) = 1
                /\ \A j \in 1..Len(new_entities[r]) :
                       sensors[new_entities[r][j]].resource = x
                       => unique_id(new_entities[r][j]) = x.resourceId

\* C9 witness: a run returned True after a re-authentication, with two
\* consumption resources in one listing and one in another.
C9_Witness ==
    \E r \in Runs :
        /\ result[r] = "True"
        /\ Len(new_entities[r]) = 3
        /\ \E i \in 1..Len(log[r]) : Reauthenticated(r, i)

\* C10 (as stated): the sensors handed to async_add_entities, by any run at
\* any position, have pairwise distinct unique_ids.
C10_Original ==
    \A r, q \in Runs : \A i \in 1..Len(added[r]) : \A j \in 1..Len(added[q]) :
        <<r, i>> # <<q, j>> => unique_id(added[r][i]) # unique_id(added[q][j])

\* C11: at any time a sensor's value is the value of the first element of
\* the data series of the reading its most recent successful poll returned,
\* and it is None exactly when no poll of the sensor has succeeded.
C11_MostRecentFetchWins ==
    \A s \in DOMAIN sensors :
        /\ sensors[s].fetched # None
             => state(s) = Some(sensors[s].fetched[1].data[1][2])
        /\ state(s) = None <=> sensors[s].fetched = None

\* C11 witness: a sensor was polled three times, one poll failed with an
\* authentication error, the last one succeeded and its value is shown,
\* while another sensor that was handed over has no value.
C11_Witness ==
    \E s, t \in DOMAIN sensors :
        /\ sensors[s].polled = 3 /\ ~ sensors[s].available
        /\ sensors[s].lastOut = "ok"
        /\ state(s) = Some(2)
        /\ state(t) = None

\* The listing calls run r issued for account e, and the authenticate calls
\* it issued while handling account e (after a failed listing of e).
ListingCalls(r, e) ==
    { i \in 1..Len(log[r]) :
        log[r][i].op = "retrieve_resources" /\ log[r][i].acct = e }

AuthCallsFor(r, e) ==
    { j \in 1..Len(log[r]) :
        /\ log[r][j].op = "authenticate"
        /\ Has(r, j - 1, "InvalidAuth")
        /\ log[r][j - 1].acct = e }

\* C12: within one run and for each account the run handles, there is at
\* most one authenticate call and at most two listing calls; every
\* authenticate call directly follows the authentication error of that
\* account's first listing; a second listing of an account is issued only
\* after authenticate returned a token and that token was persisted, and it
\* is the last listing of the account.  (Whose credentials and entry the
\* re-authentication uses is the subject of C7.)
C12_OneReauthOneRetry ==
    \A r \in Runs :
        /\ \A e \in Accounts :
             /\ Cardinality(AuthCallsFor(r, e)) <= 1
             /\ Cardinality(ListingCalls(r, e)) <= 2
             /\ \A k \in ListingCalls(r, e) :
                  (\E i \in ListingCalls(r, e) : i < k)
                  => /\ Has(r, k - 4, "authenticate")
                     /\ Has(r, k - 3, "token")
                     /\ Has(r, k - 2, "update_entry")
                     /\ log[r][k - 2].glow = log[r][k - 3].glow
                     /\ \A i \in ListingCalls(r, e) : i <= k
        /\ \A j \in 1..Len(log[r]) :
             Has(r, j, "authenticate")
             => /\ Has(r, j - 1, "InvalidAuth")
                /\ Has(r, j - 2, "retrieve_resources")
                /\ log[r][j - 2].acct = log[r][j - 1].acct
                /\ \A i \in ListingCalls(r, log[r][j - 1].acct) : j - 2 <= i

\* C12 witness: a run returned True after re-authenticating and retrying
\* once for each of the two accounts.
C12_Witness ==
    \E r \in Runs :
        /\ result[r] = "True"
        /\ \A e \in {1, 2} :
             /\ Cardinality(AuthCallsFor(r, e)) = 1
             /\ Cardinality(ListingCalls(r, e)) = 2

\* C13: a step in which a listing of run r, initial or retried, fails with
\* an error other than an authentication error issues no authenticate
\* call, leaves the persisted configuration and the client store unchanged,
\* hands over nothing, leaves the run without a handed-over sensor of that
\* account, and ends the run by raising the error, not by returning False.
C13_OtherErrorsPropagate ==
    [][ \A r \in Runs :
          (/\ pc[r] \in {"listing", "retry"}
           /\ Len(log'[r]) > Len(log[r])
           /\ log'[r][Len(log[r]) + 1].op = "Error")
          => /\ authCalls' = authCalls
             /\ \A j \in (Len(log[r]) + 1)..Len(log'[r]) :
                    log'[r][j].op # "authenticate"
             /\ configData' = configData
             /\ hassData' = hassData
             /\ sensors' = sensors
             /\ added' = added
             /\ \A s \in Range(added'[r]) : AccountOf(s) # entry[r]
             /\ pc'[r] = "done"
             /\ result'[r] = "Error" ]_vars

\* C13 witness: a retried listing raised another error after the run had
\* re-authenticated and had handed over sensors of an earlier account; and
\* an initial listing of another run raised another error.
C13_Witness ==
    \E r, q \in Runs :
        /\ result[r] = "Error"
        /\ Has(r, Len(log[r]) - 1, "Error")
        /\ Has(r, Len(log[r]) - 2, "retrieve_resources")
        /\ Has(r, Len(log[r]) - 3, "store")
        /\ added[r] # <<>>
        /\ result[q] = "Error"
        /\ Len(log[q]) = 3

\* C14 (as stated): after a successful re-authentication the retried
\* listing of the failing account is issued through the client that carries
\* the new token, not through the client that was rejected, and the sensors
\* then built for that account hold the new client.
C14_Original ==
    \A r \in Runs : \A i \in 1..Len(log[r]) :
        Reauthenticated(r, i)
        => /\ log[r][i + 5].glow = log[r][i + 2].glow
           /\ log[r][i + 5].glow # log[r][i].glow
           /\ Has(r, i + 6, "resources")
                => \A s \in Range(new_entities[r]) :
                       AccountOf(s) = log[r][i].acct
                       => sensors[s].glow = log[r][i + 2].glow

\* C15 (as stated): every sensor handed to the host holds the client that is
\* currently stored for its account in hass.data[DOMAIN].
C15_Original ==
    \A s \in Handed : sensors[s].glow = hassData[AccountOf(s)]

\* C16: nothing guards handle_failed_auth against reentrancy: while one run
\* waits for Glow.authenticate for a config entry, another run whose listing
\* of the same account is pending and which would re-authenticate the same
\* entry can still take the authentication-error branch and issue its own
\* authenticate call.
C16_ReauthNotGuarded ==
    \A r, q \in Runs :
        (/\ r # q
         /\ pc[r] = "listing" /\ pc[q] = "auth"
         /\ entry[r] = entry[q]
         /\ AuthTarget(r) = AuthTarget(q))
        => ENABLED ListingInvalidAuth(r)

\* C16 witness: two runs observed an authentication error for the same
\* account, both issued authenticate with its credentials, and neither has
\* stored a new client yet.
C16_Witness ==
    \E r, q \in Runs :
        /\ r # q
        /\ pc[r] = "auth" /\ pc[q] = "auth"
        /\ entry[r] = entry[q]
        /\ AuthTarget(r) = entry[r] /\ AuthTarget(q) = entry[q]
        /\ PendingUser(r) = PendingUser(q)
        /\ authCalls = 2
        /\ \A p \in Runs : \A i \in 1..Len(log[p]) : log[p][i].op # "store"
        /\ hassData[entry[r]] = Glow(Token(entry[r], 0))

\* The re-authentications that stored a client for config entry a: the run
\* and the position of the store in its log.
Stores(a) ==
    UNION { { <<r, i>> : i \in { j \in 1..Len(log[r]) :
                                   log[r][j].op = "store" /\ log[r][j].acct = a } } :
            r \in Runs }

\* C17: whenever no run is between the two writes of handle_failed_auth,
\* a config entry that has been re-authenticated persists the token of the
\* client stored for it, and both are those of the re-authentication that
\* returned last (the one with the highest serial).
C17_PersistAndStoreAgree ==
    (\A r \in Runs : ~ BetweenWrites(r))
    => \A a \in Accounts :
         Stores(a) # {}
         => /\ configData[a].token = hassData[a].token
            /\ \E w \in Stores(a) :
                 /\ hassData[a] = log[w[1]][w[2]].glow
                 /\ \A v \in Stores(a) :
                      log[v[1]][v[2]].glow.token.serial
                        <= log[w[1]][w[2]].glow.token.serial

\* C17 witness: both runs re-authenticated the same entry, the
\* re-authentication of run 1 returned last, and both runs are over.
C17_Witness ==
    \E a \in Accounts :
        /\ Cardinality({ w[1] : w \in Stores(a) }) = 2
        /\ \A r \in Runs : pc[r] = "done"
        /\ hassData[a].token.serial = 2
        /\ \E w \in Stores(a) :
             /\ w[1] = 1
             /\ log[1][w[2]].glow.token.serial = 2

====
